---- MODULE Spec2Model ----
(***************************************************************************)
(* A model of flask_rage.py: the FlaskRage request logger (start hook,     *)
(* end hook, exception hook, record builder, timing helpers) and its       *)
(* SQLAlchemy query timer (before/after cursor-execute listeners).         *)
(*                                                                         *)
(* Python's None is the empty sequence and a present value x is <<x>>;     *)
(* an attribute that was never set on an object reads the same as None     *)
(* wherever the code tests it with hasattr (the code never tells the two   *)
(* apart for request_start and db_time).  Strings that the code takes      *)
(* apart (the endpoint) are sequences of one-character strings.            *)
(***************************************************************************)
EXTENDS Integers, Sequences, FiniteSets, TLC

\* ------------------------------------------------------------------ bounds

\* The clock runs from 0 to MaxTime milliseconds.
MaxTime == 2
\* A connection's query_start_time list holds at most MaxDepth entries.
MaxDepth == 2
\* An application calls log_exception at most MaxExcCalls times in a request.
MaxExcCalls == 1

\* ------------------------------------------------------------ basic values

None == <<>>
Some(x) == <<x>>
IsNone(o) == o = None
Val(o) == o[1]

\* Python truthiness of an Optional[float]: None and 0 are falsy.
Truthy(o) == o # None /\ Val(o) # 0

Workers == {"w1", "w2"}
Conns == {"c1", "c2"}
\* A falsy connection handle (`if not conn`).
NoConn == "none"

\* ------------------------------------------------------ requests, outcomes

\* str(None), as the f-string of _parse renders an absent controller/action.
StrNone == <<"N", "o", "n", "e">>

Requests ==
  { [method |-> "GET", path |-> "/test", query |-> <<>>,
     url_rule |-> None, server_name |-> "localhost"],
    [method |-> "POST", path |-> "/url/path",
     query |-> << <<"this", "is">>, <<"quite", "interesting">>, <<"this", "too">> >>,
     url_rule |-> Some(<<"u", ".", "s", ".", "x">>), server_name |-> "localhost"],
    [method |-> "GET", path |-> "/", query |-> <<>>,
     url_rule |-> Some(<<"i", "x">>), server_name |-> "example.org"] }

Statuses == {200, 302, 399, 400, 403, 404, 499, 500, 503}

\* flask.Response(status=s): has status_code and headers, no code attribute.
MkResponse(s, ct) ==
  [is_response |-> TRUE, class |-> "Response", status_code |-> Some(s),
   code |-> None, content_type |-> ct, message |-> None, str |-> "<Response>"]

Responses ==
  { MkResponse(s, Some("text/html")) : s \in Statuses }
    \cup { MkResponse(200, None), MkResponse(400, Some("application/json")) }

\* Exception objects: attributes status_code / code / message may be absent.
MkException(cls, sc, code, msg, str) ==
  [is_response |-> FALSE, class |-> cls, status_code |-> sc, code |-> code,
   content_type |-> None, message |-> msg, str |-> str]

Exceptions ==
  { MkException("Exception", None, None, None, ""),
    MkException("ValueError", None, None, None, "bad value"),
    MkException("NotFound", None, Some(404), None, "404 Not Found"),
    MkException("BadRequest", None, Some(400), None, "400 Bad Request"),
    MkException("ServiceUnavailable", None, Some(503), None, "503 Service Unavailable"),
    MkException("ApiError", Some(422), Some(1), Some("boom"), "ApiError()"),
    MkException("LegacyError", None, None, Some("legacy message"), "LegacyError()") }

\* --------------------------------------------------------------- variables

VARIABLES
  now,            \* the value current_millis() returns
  has_sql_alchemy,\* whether the sqlalchemy import succeeded
  logger,         \* whether self.logger has been set (init_app has run)
  registered,     \* host events that have a FlaskRage method attached
  ctx,            \* per worker: stack.top, the application context
  pc,             \* per worker: position in the request lifecycle
  req,            \* per worker: the request bound to the context
  log,            \* per worker: records handed to the logger for the request
  response,       \* per worker: the response handed to log_request
  returned,       \* per worker: what log_request returned
  info,           \* per connection: conn.info["query_start_time"]
  raised,         \* the exception the last hook call raised, or "none"
  open,           \* per connection: queries started and not yet finished
  unmatched,      \* per connection: a post-execute arrived with no query open
  credited,       \* per worker: elapsed times of the queries completed in the request
  exc_calls,      \* per worker: log_exception calls in the request
  leftover,       \* per connection: positions of start times whose query has completed
  record,         \* the logging.LogRecord handed to the formatter
  formatted       \* what FlaskRageFormatter.format made of the record

vars == << now, has_sql_alchemy, logger, registered, ctx, pc, req, log, response,
           returned, info, raised, open, unmatched, credited, exc_calls, leftover, record, formatted >>

\* ---------------------------------------------------------- pure functions

\* str.partition(sep): <<head, sep, tail>>, split at the first separator;
\* <<s, "", "">> when s holds no separator.
RECURSIVE FirstIndex(_, _, _)
FirstIndex(s, sep, i) ==
  IF i > Len(s) THEN 0
  ELSE IF s[i] = sep THEN i
  ELSE FirstIndex(s, sep, i + 1)

Partition(s, sep) ==
  LET i == FirstIndex(s, sep, 1) IN
    IF i = 0 THEN << s, <<>>, <<>> >>
    ELSE << SubSeq(s, 1, i - 1), <<sep>>, SubSeq(s, i + 1, Len(s)) >>

\* urllib.parse.parse_qs on a query string given as its name=value pairs:
\* each name maps to the list of its values, in order of appearance.
RECURSIVE ValuesOf(_, _)
ValuesOf(q, name) ==
  IF q = <<>> THEN <<>>
  ELSE (IF Head(q)[1] = name THEN <<Head(q)[2]>> ELSE <<>>) \o ValuesOf(Tail(q), name)

parse_qs(q) ==
  [name \in { q[i][1] : i \in DOMAIN q } |-> ValuesOf(q, name)]

\* stack.top when no context is on the stack.
NoContext == [present |-> FALSE, request_start |-> None, db_time |-> None]

\* A new context that carries a db_time over from an earlier request.
NewContextStale == [present |-> TRUE, request_start |-> None, db_time |-> Some(0)]

\* The context the host pushes for a new request: no attribute set yet.
NewContext == [present |-> TRUE, request_start |-> None, db_time |-> None]

\* FlaskRage._db_time for stack.top = c.
DbTime(c) ==
  IF ~c.present THEN None
  ELSE c.db_time

\* _duration measuring from 0 when the context holds no request_start.
DurationFromZero(c, t) ==
  IF ~c.present THEN None
  ELSE IF c.request_start # None THEN Some(t - Val(c.request_start))
  ELSE Some(t)

\* FlaskRage._duration for stack.top = c, current_millis() = t.
Duration(c, t) ==
  IF ~c.present THEN None
  ELSE IF c.request_start # None THEN Some(t - Val(c.request_start))
  ELSE None

\* _view_time testing `is not None` in place of truthiness.
ViewTimeOfNotNone(duration, db_time) ==
  IF duration # None /\ db_time # None THEN Some(Val(duration) - Val(db_time))
  ELSE None

\* The body of FlaskRage._view_time once duration and db_time are read.
ViewTimeOf(duration, db_time) ==
  IF Truthy(duration) /\ Truthy(db_time) THEN Some(Val(duration) - Val(db_time))
  ELSE None

\* FlaskRage._view_time for stack.top = c, current_millis() = t.
ViewTime(c, t) == ViewTimeOf(Duration(c, t), DbTime(c))

\* The status resolved with the code attribute taking priority over the
\* status code.
StatusOfCodeFirst(resp) ==
  IF resp.code # None THEN resp.code
  ELSE IF resp.status_code # None THEN resp.status_code
  ELSE Some(500)

\* The status _parse resolves for an outcome object.
StatusOf(resp) ==
  IF resp.status_code # None THEN resp.status_code
  ELSE IF resp.code # None THEN resp.code
  ELSE Some(500)

\* The (controller, action) pair _parse resolves for a request.
RouteOf(r) ==
  IF r.url_rule # None
    THEN LET p == Partition(Val(r.url_rule), ".") IN << Some(p[1]), Some(p[3]) >>
    ELSE << None, None >>

StrOf(o) == IF o = None THEN StrNone ELSE Val(o)

\* FlaskRage._parse(req, resp) with stack.top = c; tv is the clock value read
\* inside _view_time and td the one read by the later _duration call.
Parse(r, resp, c, tv, td) ==
  LET route  == RouteOf(r)
      status == Val(StatusOf(resp))
  IN [ message |-> [status |-> status, method |-> r.method, path |-> r.path,
                    controller |-> StrOf(route[1]), action |-> StrOf(route[2])],
       extra |-> [ method |-> r.method,
                   path |-> r.path,
                   format |-> IF resp.is_response THEN resp.content_type ELSE None,
                   controller |-> route[1],
                   action |-> route[2],
                   status |-> status,
                   view |-> ViewTime(c, tv),
                   duration |-> Duration(c, td),
                   db |-> DbTime(c),
                   params |-> parse_qs(r.query),
                   exception |-> IF resp.is_response THEN None ELSE Some(resp.str),
                   exception_object |-> IF resp.is_response THEN None ELSE Some(resp.class),
                   host |-> r.server_name ] ]

\* log_request without its exemption of 404 from the error severity.
LogRequestEmitsNo404Rule(r, resp, c, tv, td) ==
  IF Val(resp.status_code) >= 500 THEN <<>>
  ELSE LET level == IF Val(resp.status_code) >= 400 THEN "ERROR" ELSE "INFO"
           p == Parse(r, resp, c, tv, td)
       IN << [level |-> level, message |-> p.message, extra |-> p.extra] >>

\* log_request suppressing only statuses above 500.
LogRequestEmitsAbove500(r, resp, c, tv, td) ==
  IF Val(resp.status_code) > 500 THEN <<>>
  ELSE LET level == IF Val(resp.status_code) >= 400 /\ Val(resp.status_code) # 404
                      THEN "ERROR" ELSE "INFO"
           p == Parse(r, resp, c, tv, td)
       IN << [level |-> level, message |-> p.message, extra |-> p.extra] >>

\* The logger calls log_request makes for a response: none for status >= 500,
\* else one, at ERROR for 4xx other than 404 and at INFO otherwise.
LogRequestEmits(r, resp, c, tv, td) ==
  IF Val(resp.status_code) >= 500 THEN <<>>
  ELSE LET level == IF Val(resp.status_code) >= 400 /\ Val(resp.status_code) # 404
                      THEN "ERROR" ELSE "INFO"
           p == Parse(r, resp, c, tv, td)
       IN << [level |-> level, message |-> p.message, extra |-> p.extra] >>

\* log_request handing back a response whose headers it stripped on the
\* suppressed branch.
LogRequestReturnsStripped(resp) ==
  IF Val(resp.status_code) >= 500 THEN [resp EXCEPT !.content_type = None]
  ELSE resp

\* What log_request returns.
LogRequestReturns(resp) == resp

\* log_exception applying log_request's status policy to the exception.
LogExceptionEmitsByStatus(r, exc, c, tv, td) ==
  LET p == Parse(r, exc, c, tv, td)
      level == IF p.extra.status >= 400 /\ p.extra.status # 404 THEN "ERROR" ELSE "INFO"
  IN IF p.extra.status >= 500 THEN <<>>
     ELSE << [level |-> level, message |-> p.message, extra |-> p.extra] >>

\* The logger calls log_exception makes for an exception.
LogExceptionEmits(r, exc, c, tv, td) ==
  LET p == Parse(r, exc, c, tv, td)
  IN << [level |-> "ERROR", message |-> p.message, extra |-> p.extra] >>

\* The events _setup_db_timer attaches listeners to.
SetupDbTimer(has) ==
  IF ~has THEN {}
  ELSE {"before_cursor_execute", "after_cursor_execute"}

\* _register_handlers also attaching log_exception to the host's error handling.
RegisterHandlersWithErrorHandler == {"before_request", "after_request", "errorhandler"}

\* The events _register_handlers attaches hooks to.
RegisterHandlers == {"before_request", "after_request"}

\* The context after _add_request_start_time runs with stack.top = c at time t.
AddRequestStartTimeTo(c, t) ==
  IF ~c.present THEN c
  ELSE [c EXCEPT !.request_start = Some(t)]

\* conn.info before any listener touched it, and the list it holds.
NoInfo == [has |-> FALSE, q |-> <<>>]

\* _before_cursor_execute appending the start time twice.
PushStartTwice(inf, t) == [has |-> TRUE, q |-> Append(Append(inf.q, t), t)]

\* conn.info after _before_cursor_execute at time t:
\* setdefault("query_start_time", []).append(t).
PushStart(inf, t) == [has |-> TRUE, q |-> Append(inf.q, t)]

\* The assignment _after_cursor_execute makes to the context's db_time.
RecordDbTime(c, total) == [c EXCEPT !.db_time = Some(total)]

\* _after_cursor_execute for a truthy connection with info = inf, stack.top = c
\* and current_millis() = t: the context and info it leaves, the exception it
\* raises, and the elapsed time it measured (None when it measured none).
AfterCursorExecuteOn(c, inf, t) ==
  IF ~c.present
    THEN [ctx |-> c, info |-> inf, raised |-> "none", total |-> None]
  ELSE IF ~inf.has
    \* .get(..., [None]).pop(-1) pops None off the default list
    THEN [ctx |-> c, info |-> inf, raised |-> "none", total |-> None]
  ELSE IF inf.q = <<>>
    \* [].pop(-1)
    THEN [ctx |-> c, info |-> inf, raised |-> "IndexError", total |-> None]
  ELSE LET start == inf.q[Len(inf.q)]
           total == t - start
       IN [ctx |-> RecordDbTime(c, total),
           info |-> [inf EXCEPT !.q = SubSeq(inf.q, 1, Len(inf.q) - 1)],
           raised |-> "none", total |-> Some(total)]

\* ------------------------------------------------------ FlaskRageFormatter

\* Python values as the formatter meets them: a type tag and the parts of the
\* value (the pieces of a string, the items of a list or dict).
PyNone == [t |-> "NoneType", v |-> <<>>]
PyInt(n) == [t |-> "int", v |-> <<n>>]
PyStr(parts) == [t |-> "str", v |-> parts]
PyBytes(parts) == [t |-> "bytes", v |-> parts]
PyList(items) == [t |-> "list", v |-> items]
PyDict(items) == [t |-> "dict", v |-> items]

\* FlaskRageFormatter.keys.
Keys ==
  { "method", "path", "format", "duration", "controller", "action", "status",
    "view", "db", "params", "exception", "exception_object", "host" }

\* The keys format adds to every output.
AddedKeys == { "@timestamp", "severity", "message" }

\* output[k] = v on a dict.
Put(output, k, v) ==
  [x \in (DOMAIN output) \cup {k} |-> IF x = k THEN v ELSE output[x]]

\* json.dumps on one value: the JSON value it writes.
RECURSIVE JsonOf(_)
JsonOf(p) ==
  CASE p.t = "NoneType" -> [t |-> "null", v |-> <<>>]
    [] p.t = "int"      -> [t |-> "number", v |-> p.v]
    [] p.t = "str"      -> [t |-> "string", v |-> p.v]
    [] p.t = "list"     -> [t |-> "array", v |-> [i \in DOMAIN p.v |-> JsonOf(p.v[i])]]
    [] p.t = "dict"     -> [t |-> "object", v |-> p.v]

\* Whether json.dumps accepts the value; it raises TypeError on bytes.
Serializable(p) == p.t # "bytes"

\* json.dumps(output): the JSON object written, or the TypeError raised.
Dumps(output) ==
  IF \E k \in DOMAIN output : ~Serializable(output[k])
    THEN [out |-> None, raised |-> "TypeError"]
    ELSE [out |-> Some([k \in DOMAIN output |-> JsonOf(output[k])]), raised |-> "none"]

\* logging.Formatter.formatException(exc_info): the traceback text.
FormatException(exc) ==
  PyStr(<< "Traceback (most recent call last):", exc.class, ": ", exc.str >>)

\* str(record.exc_info[0]).
StrOfType(exc) == PyStr(<< "<class '", exc.class, "'>" >>)

\* FlaskRageFormatter.__extract_msg.
ExtractMsg(exc) ==
  IF exc.message # None THEN PyStr(<< Val(exc.message) >>)
  ELSE PyStr(<< exc.str >>)

\* FlaskRageFormatter.__prepare_error_info.
PrepareErrorInfo(output, rec) ==
  IF rec.exc_info = None THEN output
  ELSE LET exc == Val(rec.exc_info)
           backtrace == FormatException(exc)
           traced == IF backtrace.v # <<>>
                       THEN Put(output, "exception_object", backtrace)
                       ELSE output
       IN Put(traced, "exception", PyList(<< StrOfType(exc), ExtractMsg(exc) >>))

\* datetime.fromtimestamp(record.created).astimezone().isoformat().
IsoFormat(created) == PyStr(<< "1970-01-01T00:00:0", created, "+00:00" >>)

\* The dict format builds from the record before json.dumps.
OutputOf(rec) ==
  LET copied == [k \in Keys \cap DOMAIN rec.fields |-> rec.fields[k]]
      error  == PrepareErrorInfo(copied, rec)
      stamped == Put(error, "@timestamp", IsoFormat(rec.created))
      levelled == Put(stamped, "severity", PyStr(<< rec.levelname >>))
  IN Put(levelled, "message", PyStr(<< rec.msg >>))

\* FlaskRageFormatter.format with every attribute of the record merged into
\* the output.
FormatMergingAll(rec) ==
  LET copied == [k \in DOMAIN rec.fields |-> rec.fields[k]]
      error  == PrepareErrorInfo(copied, rec)
      stamped == Put(error, "@timestamp", IsoFormat(rec.created))
      levelled == Put(stamped, "severity", PyStr(<< rec.levelname >>))
  IN Dumps(Put(levelled, "message", PyStr(<< rec.msg >>)))

\* FlaskRageFormatter.format.
Format(rec) == Dumps(OutputOf(rec))

\* ---------------------------------------------------------------- the machine

\* The state after FlaskRage() is constructed, before any record is handled.
Init ==
  /\ now = 0
  /\ has_sql_alchemy \in BOOLEAN
  /\ logger = FALSE
  /\ registered = {}
  /\ ctx = [w \in Workers |-> NoContext]
  /\ pc = [w \in Workers |-> "idle"]
  /\ req = [w \in Workers |-> None]
  /\ log = [w \in Workers |-> <<>>]
  /\ response = [w \in Workers |-> None]
  /\ returned = [w \in Workers |-> None]
  /\ info = [c \in Conns |-> NoInfo]
  /\ raised = "none"
  /\ open = [c \in Conns |-> 0]
  /\ unmatched = [c \in Conns |-> FALSE]
  /\ credited = [w \in Workers |-> [any |-> FALSE, sum |-> 0]]
  /\ exc_calls = [w \in Workers |-> 0]
  /\ leftover = [c \in Conns |-> {}]
  /\ record = None
  /\ formatted = None

\* FlaskRage.init_app.
InitApp ==
  /\ ~logger
  /\ logger' = TRUE
  /\ registered' = SetupDbTimer(has_sql_alchemy) \cup RegisterHandlers
  /\ raised' = "none"
  /\ UNCHANGED << now, has_sql_alchemy, ctx, pc, req, log, response, returned, info,
                  open, unmatched, credited, exc_calls >>
  /\ UNCHANGED leftover
  /\ UNCHANGED record
  /\ UNCHANGED formatted

\* The host pushes a context for a new request r on worker w.
PushContext(w, r) ==
  /\ logger
  /\ pc[w] = "idle"
  /\ pc' = [pc EXCEPT ![w] = "pending"]
  /\ ctx' = [ctx EXCEPT ![w] = NewContext]
  /\ req' = [req EXCEPT ![w] = Some(r)]
  /\ log' = [log EXCEPT ![w] = <<>>]
  /\ response' = [response EXCEPT ![w] = None]
  /\ returned' = [returned EXCEPT ![w] = None]
  /\ credited' = [credited EXCEPT ![w] = [any |-> FALSE, sum |-> 0]]
  /\ exc_calls' = [exc_calls EXCEPT ![w] = 0]
  /\ raised' = "none"
  /\ UNCHANGED << now, has_sql_alchemy, logger, registered, info, open, unmatched >>
  /\ UNCHANGED leftover
  /\ UNCHANGED record
  /\ UNCHANGED formatted

\* The host pops the context of a completed request.
PopContext(w) ==
  /\ pc[w] = "completed"
  /\ pc' = [pc EXCEPT ![w] = "idle"]
  /\ ctx' = [ctx EXCEPT ![w] = NoContext]
  /\ req' = [req EXCEPT ![w] = None]
  /\ log' = [log EXCEPT ![w] = <<>>]
  /\ response' = [response EXCEPT ![w] = None]
  /\ returned' = [returned EXCEPT ![w] = None]
  /\ credited' = [credited EXCEPT ![w] = [any |-> FALSE, sum |-> 0]]
  /\ exc_calls' = [exc_calls EXCEPT ![w] = 0]
  /\ raised' = "none"
  /\ UNCHANGED << now, has_sql_alchemy, logger, registered, info, open, unmatched >>
  /\ UNCHANGED leftover
  /\ UNCHANGED record
  /\ UNCHANGED formatted

\* Time passes.
Tick ==
  /\ now < MaxTime
  /\ now' = now + 1
  /\ raised' = "none"
  /\ UNCHANGED << has_sql_alchemy, logger, registered, ctx, pc, req, log, response,
                  returned, info, open, unmatched, credited, exc_calls >>
  /\ UNCHANGED leftover
  /\ UNCHANGED record
  /\ UNCHANGED formatted

\* FlaskRage._add_request_start_time on worker w: the before_request hook of
\* a pending request, a repeated call during the request, or a call with no
\* context on the stack.
AddRequestStartTime(w) ==
  /\ "before_request" \in registered
  /\ pc[w] \in {"idle", "pending", "active"}
  /\ ctx' = [ctx EXCEPT ![w] = AddRequestStartTimeTo(ctx[w], now)]
  /\ pc' = [pc EXCEPT ![w] = IF pc[w] = "idle" THEN "idle" ELSE "active"]
  /\ raised' = "none"
  /\ UNCHANGED << now, has_sql_alchemy, logger, registered, req, log, response,
                  returned, info, open, unmatched, credited, exc_calls >>
  /\ UNCHANGED leftover
  /\ UNCHANGED record
  /\ UNCHANGED formatted

\* FlaskRage._before_cursor_execute(conn, ...) called on worker w.
BeforeCursorExecute(w, c) ==
  /\ "before_cursor_execute" \in registered
  /\ IF c = NoConn
       THEN UNCHANGED << info, open >>
       ELSE /\ Len(info[c].q) < MaxDepth
            /\ info' = [info EXCEPT ![c] = PushStart(info[c], now)]
            /\ open' = [open EXCEPT ![c] = @ + 1]
  /\ raised' = "none"
  /\ UNCHANGED << now, has_sql_alchemy, logger, registered, ctx, pc, req, log,
                  response, returned, unmatched, credited, exc_calls >>
  /\ UNCHANGED leftover
  /\ UNCHANGED record
  /\ UNCHANGED formatted

\* The positions of leftover start times after a post-execute on a stack of
\* depth n that held the leftover positions left: a pop removes position n;
\* the query that completed is the latest one still open, and unless the pop
\* took its own start time, that start time stays behind as a leftover.
LeftoverAfter(left, n, popped) ==
  LET rest == IF popped THEN left \ {n} ELSE left
      live == {i \in 1..(IF popped THEN n - 1 ELSE n) : i \notin rest}
      own  == IF live = {} THEN {}
              ELSE {CHOOSE i \in live : \A j \in live : j <= i}
  IN IF popped /\ n \notin left THEN rest ELSE rest \cup own

\* _after_cursor_execute storing the elapsed time in every worker's context
\* instead of the caller's stack.top alone.
AfterCursorExecuteAll(w, c) ==
  /\ "after_cursor_execute" \in registered
  /\ IF c = NoConn
       THEN /\ raised' = "none"
            /\ UNCHANGED << ctx, info, open, unmatched, credited, leftover >>
       ELSE LET r == AfterCursorExecuteOn(ctx[w], info[c], now) IN
            /\ leftover' = [leftover EXCEPT ![c] =
                              LeftoverAfter(@, Len(info[c].q), r.total # None)]
            /\ ctx' = [v \in Workers |->
                         IF v = w THEN r.ctx
                         ELSE IF ctx[v].present /\ r.total # None
                           THEN RecordDbTime(ctx[v], Val(r.total))
                           ELSE ctx[v]]
            /\ info' = [info EXCEPT ![c] = r.info]
            /\ raised' = r.raised
            /\ open' = [open EXCEPT ![c] = IF @ > 0 THEN @ - 1 ELSE 0]
            /\ unmatched' = [unmatched EXCEPT ![c] = @ \/ open[c] = 0]
            /\ credited' = [credited EXCEPT ![w] =
                              IF r.total = None THEN @
                              ELSE [any |-> TRUE, sum |-> @.sum + Val(r.total)]]
  /\ UNCHANGED << now, has_sql_alchemy, logger, registered, pc, req, log, response,
                  returned, exc_calls >>
  /\ UNCHANGED record
  /\ UNCHANGED formatted

\* FlaskRage._after_cursor_execute(conn, ...) called on worker w.
AfterCursorExecute(w, c) ==
  /\ "after_cursor_execute" \in registered
  /\ IF c = NoConn
       THEN /\ raised' = "none"
            /\ UNCHANGED << ctx, info, open, unmatched, credited, leftover >>
       ELSE LET r == AfterCursorExecuteOn(ctx[w], info[c], now) IN
            /\ leftover' = [leftover EXCEPT ![c] =
                              LeftoverAfter(@, Len(info[c].q), r.total # None)]
            /\ ctx' = [ctx EXCEPT ![w] = r.ctx]
            /\ info' = [info EXCEPT ![c] = r.info]
            /\ raised' = r.raised
            /\ open' = [open EXCEPT ![c] = IF @ > 0 THEN @ - 1 ELSE 0]
            /\ unmatched' = [unmatched EXCEPT ![c] = @ \/ open[c] = 0]
            /\ credited' = [credited EXCEPT ![w] =
                              IF r.total = None THEN @
                              ELSE [any |-> TRUE, sum |-> @.sum + Val(r.total)]]
  /\ UNCHANGED << now, has_sql_alchemy, logger, registered, pc, req, log, response,
                  returned, exc_calls >>
  /\ UNCHANGED record
  /\ UNCHANGED formatted

\* The clock may advance between the two reads _parse makes.
ClockSteps == {0, 1}

\* FlaskRage.log_exception(exc) called on worker w during its request, as an
\* application's error handler does.
LogException(w, exc, d, calls) ==
  /\ logger
  /\ pc[w] \in {"pending", "active", "errored"}
  /\ exc_calls[w] < calls
  /\ now + d <= MaxTime
  /\ log' = [log EXCEPT ![w] =
               @ \o LogExceptionEmits(Val(req[w]), exc, ctx[w], now, now + d)]
  /\ now' = now + d
  /\ exc_calls' = [exc_calls EXCEPT ![w] = @ + 1]
  /\ pc' = [pc EXCEPT ![w] = "errored"]
  /\ raised' = "none"
  /\ UNCHANGED << has_sql_alchemy, logger, registered, ctx, req, response, returned,
                  info, open, unmatched, credited >>
  /\ UNCHANGED leftover
  /\ UNCHANGED record
  /\ UNCHANGED formatted

\* FlaskRage.log_request(resp) called on worker w: the after_request hook.
LogRequest(w, resp, d) ==
  /\ "after_request" \in registered
  /\ pc[w] \in {"pending", "active", "errored"}
  /\ now + d <= MaxTime
  /\ log' = [log EXCEPT ![w] =
               @ \o LogRequestEmits(Val(req[w]), resp, ctx[w], now, now + d)]
  /\ now' = now + d
  /\ response' = [response EXCEPT ![w] = Some(resp)]
  /\ returned' = [returned EXCEPT ![w] = Some(LogRequestReturns(resp))]
  /\ pc' = [pc EXCEPT ![w] = "completed"]
  /\ raised' = "none"
  /\ UNCHANGED << has_sql_alchemy, logger, registered, ctx, req, info, open,
                  unmatched, credited, exc_calls >>
  /\ UNCHANGED leftover
  /\ UNCHANGED record
  /\ UNCHANGED formatted

\* The response the host builds for an exception no error handler took.
ServerErrorResponse == MkResponse(500, Some("text/html"))

\* The handler of worker w raises exc and the application has no error
\* handler of its own: the host runs the hooks init_app attached to its
\* error handling, turns the exception into a 500 response and runs the
\* after_request hooks on it.
UnhandledException(w, exc, d) ==
  /\ logger
  /\ pc[w] = "active"
  /\ exc.status_code = None /\ exc.code = None
  /\ now + d <= MaxTime
  /\ LET handled == IF "errorhandler" \in registered
                      THEN LogExceptionEmits(Val(req[w]), exc, ctx[w], now, now + d)
                      ELSE <<>>
         logged  == IF "after_request" \in registered
                      THEN LogRequestEmits(Val(req[w]), ServerErrorResponse, ctx[w],
                                           now + d, now + d)
                      ELSE <<>>
     IN log' = [log EXCEPT ![w] = @ \o handled \o logged]
  /\ now' = now + d
  /\ response' = [response EXCEPT ![w] = Some(ServerErrorResponse)]
  /\ returned' = [returned EXCEPT ![w] =
                    IF "after_request" \in registered
                      THEN Some(LogRequestReturns(ServerErrorResponse))
                      ELSE Some(ServerErrorResponse)]
  /\ pc' = [pc EXCEPT ![w] = "completed"]
  /\ raised' = "none"
  /\ UNCHANGED << has_sql_alchemy, logger, registered, ctx, req, info, open,
                  unmatched, credited, exc_calls >>
  /\ UNCHANGED leftover
  /\ UNCHANGED record
  /\ UNCHANGED formatted

\* The steps of the workers ws using the connections cs, serving the requests
\* rs with the outcomes resps and excs, an application calling log_exception
\* at most calls times in a request.
NextOver(ws, cs, rs, resps, excs, calls) ==
  \/ InitApp
  \/ Tick
  \/ \E w \in ws, r \in rs : PushContext(w, r)
  \/ \E w \in ws : AddRequestStartTime(w)
  \/ \E w \in ws, c \in cs \cup {NoConn} : BeforeCursorExecute(w, c)
  \/ \E w \in ws, c \in cs \cup {NoConn} : AfterCursorExecute(w, c)
  \/ \E w \in ws, exc \in excs, d \in ClockSteps : LogException(w, exc, d, calls)
  \/ \E w \in ws, resp \in resps, d \in ClockSteps : LogRequest(w, resp, d)
  \/ \E w \in ws, exc \in excs, d \in ClockSteps : UnhandledException(w, exc, d)
  \/ \E w \in ws : PopContext(w)

\* One worker serving one kind of request over one pooled connection.
Next ==
  NextOver({"w1"}, {"c1"}, {r \in Requests : r.url_rule = None},
           {MkResponse(200, None), MkResponse(500, Some("text/html"))},
           {MkException("Exception", None, None, None, "")}, 1)

Spec == Init /\ [][Next]_vars

\* Two workers, each serving requests of one kind in a context of its own,
\* sharing one pooled connection that runs one statement at a time; the host
\* runs the start hook once for each request.
PairNext ==
  \/ InitApp
  \/ Tick
  \/ \E w \in Workers, r \in {r \in Requests : r.url_rule = None} : PushContext(w, r)
  \/ \E w \in Workers : pc[w] = "pending" /\ AddRequestStartTime(w)
  \/ \E w \in Workers : info["c1"].q = <<>> /\ BeforeCursorExecute(w, "c1")
  \/ \E w \in Workers : AfterCursorExecute(w, "c1")
  \/ \E w \in Workers : pc[w] = "active" /\ LogRequest(w, MkResponse(200, None), 0)
  \/ \E w \in Workers : PopContext(w)

SpecPair == Init /\ [][PairNext]_vars

\* Two workers, each with a context and a connection of its own; a request
\* runs its queries one at a time between its start hook and its end hook.
OwnConn == [w \in Workers |-> IF w = "w1" THEN "c1" ELSE "c2"]

OwnNext ==
  \/ InitApp
  \/ Tick
  \/ \E w \in Workers, r \in {r \in Requests : r.url_rule = None} : PushContext(w, r)
  \/ \E w \in Workers : pc[w] = "pending" /\ AddRequestStartTime(w)
  \/ \E w \in Workers : /\ pc[w] = "active" /\ info[OwnConn[w]].q = <<>>
                         /\ BeforeCursorExecute(w, OwnConn[w])
  \/ \E w \in Workers : /\ pc[w] = "active" /\ info[OwnConn[w]].q # <<>>
                         /\ AfterCursorExecute(w, OwnConn[w])
  \/ \E w \in Workers : /\ pc[w] = "active" /\ info[OwnConn[w]].q = <<>>
                         /\ LogRequest(w, MkResponse(200, None), 0)
  \/ \E w \in Workers : PopContext(w)

SpecOwn == Init /\ [][OwnNext]_vars

\* The extra attributes a logging call may put on a record: none, those of a
\* request record, those of an exception record, a recognized one next to an
\* unrecognized one, and one json.dumps rejects.
FieldSets ==
  { [k \in {} |-> PyNone],
    [k \in Keys |->
       CASE k = "method" -> PyStr(<< "GET" >>)
         [] k = "path" -> PyStr(<< "/a" >>)
         [] k = "status" -> PyInt(200)
         [] k = "duration" -> PyInt(2)
         [] k = "db" -> PyInt(1)
         [] k = "view" -> PyInt(1)
         [] k = "params" -> PyDict(<< "q", "1" >>)
         [] k = "host" -> PyStr(<< "localhost" >>)
         [] OTHER -> PyNone],
    [k \in Keys |->
       CASE k = "method" -> PyStr(<< "POST" >>)
         [] k = "path" -> PyStr(<< "/b" >>)
         [] k = "status" -> PyInt(500)
         [] k = "params" -> PyDict(<< >>)
         [] k = "exception" -> PyStr(<< "boom" >>)
         [] k = "exception_object" -> PyStr(<< "ApiError" >>)
         [] k = "host" -> PyStr(<< "localhost" >>)
         [] OTHER -> PyNone],
    [k \in {"status", "user_id"} |-> IF k = "status" THEN PyInt(404) ELSE PyInt(7)],
    [k \in {"params"} |-> PyBytes(<< "raw" >>)] }

\* The exc_info a logging call may put on a record.
ExcInfos ==
  { None,
    Some(MkException("ValueError", None, None, None, "bad value")),
    Some(MkException("LegacyError", None, None, Some("legacy message"), "LegacyError()")) }

\* The records handed to the formatter.
Records ==
  [ fields : FieldSets, exc_info : ExcInfos, levelname : {"INFO", "ERROR"},
    msg : {"[200] GET /a (None#None)", "hello"}, created : {0, 1} ]

\* The state in which a handler holds a record to format.
InitFormat ==
  /\ now = 0
  /\ has_sql_alchemy = TRUE
  /\ logger = FALSE
  /\ registered = {}
  /\ ctx = [w \in Workers |-> NoContext]
  /\ pc = [w \in Workers |-> "idle"]
  /\ req = [w \in Workers |-> None]
  /\ log = [w \in Workers |-> <<>>]
  /\ response = [w \in Workers |-> None]
  /\ returned = [w \in Workers |-> None]
  /\ info = [c \in Conns |-> NoInfo]
  /\ raised = "none"
  /\ open = [c \in Conns |-> 0]
  /\ unmatched = [c \in Conns |-> FALSE]
  /\ credited = [w \in Workers |-> [any |-> FALSE, sum |-> 0]]
  /\ exc_calls = [w \in Workers |-> 0]
  /\ leftover = [c \in Conns |-> {}]
  /\ record \in { Some(rec) : rec \in Records }
  /\ formatted = None

\* The handler calls FlaskRageFormatter.format(record).
FormatRecord ==
  /\ record # None
  /\ formatted = None
  /\ formatted' = Some(Format(Val(record)))
  /\ raised' = Format(Val(record)).raised
  /\ UNCHANGED << now, has_sql_alchemy, logger, registered, ctx, pc, req, log,
                  response, returned, info, open, unmatched, credited, exc_calls,
                  leftover, record >>

FormatNext == FormatRecord

SpecFormat == InitFormat /\ [][FormatNext]_vars

\* One worker serving every kind of request and outcome, with no database
\* connection in use.
HooksNext == NextOver({"w1"}, {}, Requests, Responses, Exceptions, MaxExcCalls)

SpecHooks == Init /\ [][HooksNext]_vars

\* ------------------------------------------------------------------ claims

\* The records a step added to worker w's log.
Emitted(w) == SubSeq(log'[w], Len(log[w]) + 1, Len(log'[w]))

\* The step kept what worker w's log already held.
KeepsLog(w) ==
  /\ Len(log'[w]) >= Len(log[w])
  /\ SubSeq(log'[w], 1, Len(log[w])) = log[w]

\* C1: for every status s handed to log_request inside a request, s < 400 or
\* s = 404 emits exactly one record, at INFO; 400 <= s < 500 other than 404
\* emits exactly one record, at ERROR; s >= 500 emits no record.
C1_EndHookSeverity ==
  [][ \A w \in Workers, resp \in Responses, d \in ClockSteps :
        LogRequest(w, resp, d) =>
          LET s == Val(resp.status_code) IN
            /\ KeepsLog(w)
            /\ (s < 400 \/ s = 404) =>
                 (Len(Emitted(w)) = 1 /\ Emitted(w)[1].level = "INFO")
            /\ (s >= 400 /\ s < 500 /\ s # 404) =>
                 (Len(Emitted(w)) = 1 /\ Emitted(w)[1].level = "ERROR")
            /\ (s >= 500) => Emitted(w) = <<>> ]_vars

\* A request that ended with status 404 and one INFO record.
C1_Witness ==
  \E w \in Workers :
    /\ pc[w] = "completed"
    /\ exc_calls[w] = 0
    /\ response[w] # None
    /\ Val(Val(response[w]).status_code) = 404
    /\ Len(log[w]) = 1
    /\ log[w][1].level = "INFO"

\* C2: each post-execute with a connection, a context and a non-empty stack
\* adds the elapsed time of the popped start time to the request's db time,
\* so after N completed queries in a request the db time is the sum of the N
\* elapsed times.
C2_DbTimeIsSum ==
  \A w \in Workers :
    (ctx[w].present /\ credited[w].any) => ctx[w].db_time = Some(credited[w].sum)

\* C3: within one request the db time never decreases from one step to the
\* next (a context that stays on the stack belongs to one request).
C3_DbTimeMonotone ==
  [][ \A w \in Workers :
        (ctx[w].present /\ ctx'[w].present /\ ctx[w].db_time # None) =>
          /\ ctx'[w].db_time # None
          /\ Val(ctx'[w].db_time) >= Val(ctx[w].db_time) ]_vars

\* C4: a post-execute that finds the connection's stack empty, whether the
\* connection never had one or earlier pops emptied it, raises nothing and
\* leaves the db time and the stack as they were.
C4_EmptyPopIsNoOp ==
  [][ \A w \in Workers, c \in Conns :
        (AfterCursorExecute(w, c) /\ info[c].q = <<>>) =>
          /\ raised' = "none"
          /\ ctx' = ctx
          /\ info' = info ]_vars

\* C5: on a connection whose queries are each bracketed by one pre-execute and
\* one post-execute, the depth of the stack equals the number of open queries.
C5_DepthIsOpenQueries ==
  \A c \in Conns : ~unmatched[c] => Len(info[c].q) = open[c]

\* C6 as claimed: over a request lifecycle at most one record is emitted; the
\* exception hook and the end hook never both emit for the same request.
C6_AtMostOneRecord ==
  \A w \in Workers : Len(log[w]) <= 1

\* C6 as amended: a completed request holds one record for each call of the
\* exception hook, plus one from the end hook exactly when the response it
\* received has a status below 500; so the two paths both emit only when the
\* exception hook ran and the response has a status below 500.
C6_RecordsPerRequest ==
  \A w \in Workers :
    pc[w] = "completed" =>
      Len(log[w]) = exc_calls[w]
                      + (IF Val(Val(response[w]).status_code) < 500 THEN 1 ELSE 0)

\* A request logged by the exception hook and then again by the end hook.
C6_Witness ==
  \E w \in Workers :
    /\ pc[w] = "completed"
    /\ exc_calls[w] = 1
    /\ Val(Val(response[w]).status_code) = 400
    /\ Len(log[w]) = 2
    /\ log[w][1].extra.exception_object # None
    /\ log[w][2].extra.exception_object = None

\* The host events that belong to the request lifecycle.
LifecycleEvents == {"before_request", "after_request", "errorhandler"}

\* C7 as claimed: init_app registers the start hook, the end hook and the
\* unhandled-exception hook, so a request whose handler raises an unhandled
\* exception gets an error record.
C7_AllThreeHooks ==
  logger => LifecycleEvents \subseteq registered

\* C7 as amended: init_app registers the start hook and the end hook only;
\* the exception hook is left for the application to call.  A request whose
\* handler raises an exception that no error handler takes reaches only the
\* end hook, with the host's 500 response, and no record is emitted for it.
C7_TwoHooksOnly ==
  [][ /\ logger' => registered' \cap LifecycleEvents = {"before_request", "after_request"}
      /\ \A w \in Workers, exc \in Exceptions, d \in ClockSteps :
           UnhandledException(w, exc, d) =>
             (log'[w] = log[w] /\ returned'[w] = Some(ServerErrorResponse)) ]_vars

\* A request that ended in an unhandled exception and left no record.
C7_Witness ==
  \E w \in Workers :
    /\ logger
    /\ "errorhandler" \notin registered
    /\ pc[w] = "completed"
    /\ exc_calls[w] = 0
    /\ response[w] = Some(ServerErrorResponse)
    /\ log[w] = <<>>

\* C8: every call of log_exception emits exactly one record, at ERROR,
\* whatever status the exception resolves to; for an exception with neither
\* status_code nor code the record has status 500, the exception's type name
\* as exception_object, and format null.
C8_ExceptionHookAlwaysError ==
  [][ \A w \in Workers, exc \in Exceptions, d \in ClockSteps :
        LogException(w, exc, d, MaxExcCalls) =>
          /\ KeepsLog(w)
          /\ Len(Emitted(w)) = 1
          /\ Emitted(w)[1].level = "ERROR"
          /\ (exc.status_code = None /\ exc.code = None) =>
               /\ Emitted(w)[1].extra.status = 500
               /\ Emitted(w)[1].extra.exception_object = Some(exc.class)
               /\ Emitted(w)[1].extra.format = None ]_vars

\* An exception that resolves to a status the end hook would suppress,
\* logged at ERROR.
C8_Witness ==
  \E w \in Workers :
    /\ pc[w] = "errored"
    /\ Len(log[w]) = 1
    /\ log[w][1].level = "ERROR"
    /\ log[w][1].extra.status = 503
    /\ log[w][1].extra.exception_object = Some("ServiceUnavailable")
    /\ log[w][1].extra.format = None

\* C9: log_request returns the response it received, status and headers
\* unmodified, on the suppressed, the error and the informational branch.
C9_ResponsePassThrough ==
  \A w \in Workers :
    returned[w] # None =>
      /\ response[w] # None
      /\ returned[w] = response[w]
      /\ Val(returned[w]).status_code = Val(response[w]).status_code
      /\ Val(returned[w]).content_type = Val(response[w]).content_type

\* A suppressed response (status >= 500) handed back as it came.
C9_Witness ==
  \E w \in Workers :
    /\ pc[w] = "completed"
    /\ log[w] = <<>>
    /\ returned[w] = Some(MkResponse(503, Some("text/html")))
    /\ response[w] = returned[w]

\* Whether an Optional[float] is known and non-zero.
KnownNonZero(o) == o # None /\ Val(o) # 0

\* C10: view_time is duration - db_time exactly when both are known and
\* non-zero, and unknown in every other case (duration unknown, db_time
\* unknown, duration 0, db_time 0); checked for every context a worker can
\* hold and every clock value from now on.
C10_ViewTime ==
  \A w \in Workers, t \in now..MaxTime :
    LET duration == Duration(ctx[w], t)
        db_time  == DbTime(ctx[w])
        view     == ViewTime(ctx[w], t)
    IN /\ (KnownNonZero(duration) /\ KnownNonZero(db_time)) =>
            (view # None /\ Val(view) = Val(duration) - Val(db_time))
       /\ ~(KnownNonZero(duration) /\ KnownNonZero(db_time)) => view = None

\* A record whose view is known sits in the log while, in the same context,
\* a later query has set db_time to 0, which makes the view unknown.
C10_Witness ==
  \E w \in Workers :
    /\ Len(log[w]) = 1
    /\ log[w][1].extra.view # None
    /\ Val(log[w][1].extra.view) = Val(log[w][1].extra.duration) - Val(log[w][1].extra.db)
    /\ ctx[w].db_time = Some(0)
    /\ Duration(ctx[w], now) # None /\ Val(Duration(ctx[w], now)) # 0
    /\ ViewTime(ctx[w], now) = None

\* The duration a record built for worker w at time t has to carry: unknown
\* without a context or a recorded start, else t minus the recorded start.
ExpectedDuration(w, t) ==
  IF ~ctx[w].present \/ ctx[w].request_start = None THEN None
  ELSE Some(t - Val(ctx[w].request_start))

\* C11: when the start hook never ran for the request, or no context is
\* active, duration is unknown and nothing is raised, at the end hook and at
\* the exception hook alike; once the start hook has run with a context,
\* duration is the clock value read minus the recorded start.
C11_DurationUnknownOrElapsed ==
  [][ /\ \A w \in Workers : Duration(ctx[w], now) = ExpectedDuration(w, now)
      /\ \A w \in Workers, resp \in Responses, d \in ClockSteps :
           LogRequest(w, resp, d) =>
             /\ raised' = "none"
             /\ \A i \in DOMAIN Emitted(w) :
                  Emitted(w)[i].extra.duration = ExpectedDuration(w, now + d)
      /\ \A w \in Workers, exc \in Exceptions, d \in ClockSteps :
           LogException(w, exc, d, MaxExcCalls) =>
             /\ raised' = "none"
             /\ \A i \in DOMAIN Emitted(w) :
                  Emitted(w)[i].extra.duration = ExpectedDuration(w, now + d) ]_vars

\* A request logged by both hooks without the start hook having run: both
\* records carry an unknown duration.
C11_Witness ==
  \E w \in Workers :
    /\ pc[w] = "completed"
    /\ ctx[w].present
    /\ ctx[w].request_start = None
    /\ Len(log[w]) = 2
    /\ log[w][1].extra.duration = None
    /\ log[w][2].extra.duration = None

\* C12: a query whose post-execute runs with no context active changes no
\* request's db time then, and the start time it leaves behind is never
\* popped into the db time of a request that later uses the connection (here
\* by the post-execute of a query that is open on the connection).
C12_DroppedQueryNeverCounted ==
  [][ \A w \in Workers, c \in Conns :
        AfterCursorExecute(w, c) =>
          /\ ~ctx[w].present => ctx' = ctx
          /\ (open[c] > 0 /\ Len(info'[c].q) < Len(info[c].q)) =>
               Len(info[c].q) \notin leftover[c] ]_vars

\* C13: a query's elapsed time is credited to the context that is active when
\* its post-execute notification fires: the pre-execute notification changes
\* no context, and a post-execute notification on worker w that pops a start
\* time stores now minus that start time as the db time of w's context and
\* leaves every other worker's context as it was.
C13_CreditedAtCompletion ==
  [][ \A w \in Workers, c \in Conns :
        /\ BeforeCursorExecute(w, c) => ctx' = ctx
        /\ AfterCursorExecute(w, c) =>
             /\ \A v \in Workers \ {w} : ctx'[v] = ctx[v]
             /\ (ctx[w].present /\ info[c].q # <<>>) =>
                  /\ ctx'[w].db_time = Some(now - info[c].q[Len(info[c].q)])
                  /\ ctx'[w].request_start = ctx[w].request_start ]_vars

\* A query that started before the request of w2 did was credited to w2,
\* while the request of w1, already running when the query started, still
\* has no db time.
C13_Witness ==
  /\ ctx["w1"].present /\ ctx["w1"].request_start # None
  /\ ctx["w1"].db_time = None
  /\ ctx["w2"].present /\ ctx["w2"].request_start # None
  /\ Val(ctx["w1"].request_start) < Val(ctx["w2"].request_start)
  /\ ctx["w2"].db_time # None
  /\ Val(ctx["w2"].db_time) > now - Val(ctx["w2"].request_start)
  /\ info["c1"].q = <<>>

\* C14: with two requests interleaved on two workers, each with its own
\* context and connection, a hook call made for worker w leaves the
\* request_start and db time of the other worker's context as they were, and
\* the context of every new request has no request_start and no db time.
C14_IsolatedAndFresh ==
  [][ \A w \in Workers :
        /\ ( \/ AddRequestStartTime(w)
             \/ BeforeCursorExecute(w, OwnConn[w])
             \/ AfterCursorExecute(w, OwnConn[w])
             \/ \E resp \in Responses, d \in ClockSteps : LogRequest(w, resp, d) )
           => \A v \in Workers \ {w} :
                /\ ctx'[v].request_start = ctx[v].request_start
                /\ ctx'[v].db_time = ctx[v].db_time
        /\ (\E r \in Requests : PushContext(w, r)) =>
             /\ DbTime(ctx'[w]) = None
             /\ ctx'[w].request_start = None
             /\ \A v \in Workers \ {w} : ctx'[v] = ctx[v] ]_vars

\* A new request on w1 has no db time although an earlier request of w1
\* completed a query on w1's connection and the request running on w2 has a
\* db time.
C14_Witness ==
  /\ pc["w1"] = "pending"
  /\ ctx["w1"].present /\ ctx["w1"].db_time = None
  /\ info["c1"].has /\ info["c1"].q = <<>>
  /\ ctx["w2"].present /\ ctx["w2"].db_time # None

\* C15: when the start hook runs on a context whose request_start is already
\* recorded, request_start keeps its first value.
C15_StartSetOnlyIfUnset ==
  [][ \A w \in Workers :
        (AddRequestStartTime(w) /\ ctx[w].present /\ ctx[w].request_start # None)
          => ctx'[w].request_start = ctx[w].request_start ]_vars

\* The status the priority order gives an outcome object: its status code,
\* otherwise its code attribute, otherwise 500.
ExpectedStatus(o) ==
  IF o.status_code # None THEN Val(o.status_code)
  ELSE IF o.code # None THEN Val(o.code)
  ELSE 500

\* C16: every record emitted for an outcome object carries, in its status
\* field and in the prefix of its message alike, the outcome's status code if
\* it has one, otherwise its code attribute if it has one, otherwise 500.
C16_StatusPriority ==
  [][ \A w \in Workers, d \in ClockSteps :
        /\ \A resp \in Responses :
             LogRequest(w, resp, d) =>
               \A i \in DOMAIN Emitted(w) :
                 /\ Emitted(w)[i].extra.status = ExpectedStatus(resp)
                 /\ Emitted(w)[i].message.status = ExpectedStatus(resp)
        /\ \A exc \in Exceptions :
             LogException(w, exc, d, MaxExcCalls) =>
               /\ Len(Emitted(w)) = 1
               /\ Emitted(w)[1].extra.status = ExpectedStatus(exc)
               /\ Emitted(w)[1].message.status = ExpectedStatus(exc) ]_vars

\* A record for an exception with both a status code (422) and a code
\* attribute (1) carries 422.
C16_Witness ==
  \E w \in Workers :
    /\ \E i \in DOMAIN log[w] :
         /\ log[w][i].extra.exception_object = Some("ApiError")
         /\ log[w][i].extra.status = 422
         /\ log[w][i].message.status = 422
    /\ pc[w] = "errored"

\* The fields FlaskRageFormatter replaces on a record that carries exc_info.
ErrorKeys == { "exception", "exception_object" }

\* C17 as stated: whenever format returns an output, it holds every
\* recognized field present on the event with the value the event carried,
\* no key outside the fixed key set plus @timestamp, severity and message,
\* and always those three; also for events that carry exc_info.
C17_OutputKeepsEveryField ==
  (formatted # None /\ Val(formatted).out # None) =>
    LET rec == Val(record)
        out == Val(Val(formatted).out)
    IN /\ \A k \in Keys \cap DOMAIN rec.fields :
            k \in DOMAIN out /\ out[k] = JsonOf(rec.fields[k])
       /\ DOMAIN out \subseteq Keys \cup AddedKeys
       /\ AddedKeys \subseteq DOMAIN out

\* C17 amended: whenever format returns an output, it holds no key outside
\* the fixed key set plus @timestamp, severity and message, always those
\* three, and every recognized field present on the event with the value the
\* event carried, except that on an event with exc_info the fields exception
\* and exception_object are always present and hold the pair of exception
\* type and message and the traceback text instead.
C17_OutputKeepsFieldsButErrorInfo ==
  (formatted # None /\ Val(formatted).out # None) =>
    LET rec == Val(record)
        out == Val(Val(formatted).out)
        replaced == IF rec.exc_info # None THEN ErrorKeys ELSE {}
    IN /\ \A k \in (Keys \cap DOMAIN rec.fields) \ replaced :
            k \in DOMAIN out /\ out[k] = JsonOf(rec.fields[k])
       /\ \A k \in replaced : k \in DOMAIN out
       /\ rec.exc_info # None =>
            /\ out["exception"].t = "array"
            /\ Len(out["exception"].v) = 2
            /\ out["exception"].v[1] = JsonOf(StrOfType(Val(rec.exc_info)))
            /\ out["exception_object"] = JsonOf(FormatException(Val(rec.exc_info)))
       /\ DOMAIN out \subseteq Keys \cup AddedKeys
       /\ AddedKeys \subseteq DOMAIN out

\* format returned an output for an event that carried exc_info next to its
\* own exception and exception_object fields and its other recognized fields.
C17_Witness ==
  /\ formatted # None /\ Val(formatted).out # None
  /\ Val(record).exc_info # None
  /\ Keys \subseteq DOMAIN Val(record).fields
  /\ Val(record).fields["exception"] # PyNone
  /\ Val(Val(formatted).out)["status"] = JsonOf(PyInt(500))

\* C18: the record emitted for an exception outcome has as its exception
\* field the exception's message attribute when it has one and its string
\* form only when it has none; the record emitted for a genuine response has
\* neither exception nor exception_object.
C18_ExceptionPrefersMessage ==
  [][ \A w \in Workers, d \in ClockSteps :
        /\ \A exc \in Exceptions :
             LogException(w, exc, d, MaxExcCalls) =>
               \A i \in DOMAIN Emitted(w) :
                 Emitted(w)[i].extra.exception =
                   (IF exc.message # None THEN exc.message ELSE Some(exc.str))
        /\ \A resp \in Responses :
             LogRequest(w, resp, d) =>
               \A i \in DOMAIN Emitted(w) :
                 /\ Emitted(w)[i].extra.exception = None
                 /\ Emitted(w)[i].extra.exception_object = None ]_vars

\* C19: in every emitted record whose view field is known, view equals
\* duration minus db, also when the clock advances between the clock reads
\* made while the record is built.
C19_ViewIsDurationMinusDb ==
  \A w \in Workers : \A i \in DOMAIN log[w] :
    LET e == log[w][i].extra
    IN e.view # None =>
         /\ e.duration # None /\ e.db # None
         /\ Val(e.view) = Val(e.duration) - Val(e.db)

\* C20: pre-execute and post-execute with an absent connection change no
\* query stack and no context; the start hook with no active context changes
\* no context, query stack or log; pre-execute with a valid connection
\* appends exactly one start time, the current time, to that connection's
\* stack and changes no other stack and no context; log_request and
\* log_exception change no context and no query stack.
C20_HooksTouchOnlyTheirOwnState ==
  [][ \A w \in Workers :
        /\ BeforeCursorExecute(w, NoConn) => (info' = info /\ ctx' = ctx)
        /\ AfterCursorExecute(w, NoConn) => (info' = info /\ ctx' = ctx)
        /\ (AddRequestStartTime(w) /\ ~ctx[w].present) =>
             (ctx' = ctx /\ info' = info /\ log' = log)
        /\ \A c \in Conns :
             BeforeCursorExecute(w, c) =>
               /\ info'[c].q = Append(info[c].q, now)
               /\ \A other \in Conns \ {c} : info'[other] = info[other]
               /\ ctx' = ctx
        /\ \A resp \in Responses, d \in ClockSteps :
             LogRequest(w, resp, d) => (ctx' = ctx /\ info' = info)
        /\ \A exc \in Exceptions, d \in ClockSteps :
             LogException(w, exc, d, MaxExcCalls) => (ctx' = ctx /\ info' = info) ]_vars

\* A request with a request_start and a db time has logged its record while
\* a pre-execute has pushed the one start time on the connection's stack.
C20_Witness ==
  /\ pc["w1"] = "completed" /\ Len(log["w1"]) = 1
  /\ ctx["w1"].request_start # None /\ ctx["w1"].db_time # None
  /\ Len(info["c1"].q) = 1 /\ open["c1"] = 1
  /\ info["c1"].q[1] > Val(ctx["w1"].request_start)

====
